---- MODULE Spec2Model ----
(***************************************************************************)
(* Model of src/app.py: a Streamlit stock ledger over a Postgres database. *)
(*                                                                         *)
(* Persisted state is the four tables of init_db.  Every exec_sql and      *)
(* read_df call opens its own transaction (ENGINE.begin()), so one SQL     *)
(* statement is one atomic step and nothing groups the statements of one   *)
(* Python function.  Each browser session runs the script in its own       *)
(* thread: the sessions' statements interleave freely.                     *)
(***************************************************************************)
EXTENDS Integers, Sequences, FiniteSets, TLC

\* ------------------------------------------------------------------ bounds
MaxOps == 2        \* script runs (clicks, edits, calls) started in one behaviour

DEFAULT_GLOBAL_SEUIL == 3

\* Script threads that can run at the same time.  Sessions keep nothing
\* between two runs, so a run that starts takes the lowest free slot.
Sessions == {1, 2}
Articles == {"A", "B"}
TypedDesignations == {"", "D1"}     \* typed into "Désignation (1ère fois)"
EditedDesignations == {"D2"}        \* typed over "Nouvelle désignation"
AdresseNames == {"X"}
Quantites == {1, 2}                 \* typed into "Quantité" (min_value=1)
Seuils == {0}                       \* typed into "Seuil pièce" / "Seuil global"
Dates == {"2026-01-01"}
Commentaires == {""}

NULL == "NULL"     \* SQL NULL / Python None in a TEXT column

\* The two selectboxes of the movement form.
Emplacements == {"STOCK", "GARANTIE"}
TypesMvt == {"ENTREE", "SORTIE"}

VARIABLES
    articles,     \* table articles: article -> [designation, stock, garantie, seuil_commande]
    mouvements,   \* table mouvements: set of rows
    mouv_id,      \* last value of the BIGSERIAL sequence of mouvements.id
    adresses,     \* table adresses: set of nom
    settings,     \* table settings: value of key 'seuil_global' (TEXT)
    pc,           \* per session: the statement it is about to execute
    frame,        \* per session: arguments and locals of the running handler
    last,         \* how the most recently ended handler run ended (history)
    nops          \* handler runs started so far

vars == <<articles, mouvements, mouv_id, adresses, settings, pc, frame, last, nops>>

db == <<articles, mouvements, mouv_id, adresses, settings>>

NoFrame == [op |-> "none"]

\* ------------------------------------------------------------ conversions
\* str(int) and int(str) on non-negative integers, as decimal digit sequences.
RECURSIVE str(_)
str(n) == IF n < 10 THEN <<n>> ELSE Append(str(n \div 10), n % 10)

RECURSIVE int(_)
int(digits) ==
    IF Len(digits) = 0 THEN 0
    ELSE 10 * int(SubSeq(digits, 1, Len(digits) - 1)) + digits[Len(digits)]

\* (x or None): the empty string becomes None.
or_none(x) == IF x = "" THEN NULL ELSE x

\* ------------------------------------------------------------------- Init
\* The state init_db leaves on an empty database.
Init ==
    /\ articles = <<>>
    /\ mouvements = {}
    /\ mouv_id = 0
    /\ adresses = {}
    /\ settings = str(DEFAULT_GLOBAL_SEUIL)
    /\ pc = [s \in Sessions |-> "idle"]
    /\ frame = [s \in Sessions |-> NoFrame]
    /\ last = [op |-> "none", result |-> "none", eff |-> {}, shown |-> {}]
    /\ nops = 0

\* ---------------------------------------------------------------- helpers
registered == DOMAIN articles

\* A script run starts in session s.
begin(s) ==
    /\ pc[s] = "idle"
    /\ \A t \in Sessions : t < s => pc[t] # "idle"
    /\ nops < MaxOps
    /\ nops' = nops + 1

\* The run of session s ends (return, st.rerun() or an except branch) with
\* outcome r, having persisted the effects e and displayed the reorder rows sh.
finish(s, op, r, e, sh) ==
    /\ pc' = [pc EXCEPT ![s] = "idle"]
    /\ frame' = [frame EXCEPT ![s] = NoFrame]
    /\ last' = [op |-> op, result |-> r, eff |-> e, shown |-> sh]

\* The run of session s goes on with statement next and locals f.
goto(s, next, f) ==
    /\ pc' = [pc EXCEPT ![s] = next]
    /\ frame' = [frame EXCEPT ![s] = f]
    /\ UNCHANGED last

\* get_designation
get_designation(article) ==
    IF article \in registered THEN articles[article].designation ELSE ""

\* ------------------------------------------------- SQL statements (pure)
\* upsert_article as INSERT OR REPLACE: the conflicting row is rewritten whole.
upsert_article_remplace(arts, a, d) ==
    [x \in DOMAIN arts \cup {a} |->
        IF x = a
        THEN [designation |-> d, stock |-> 0, garantie |-> 0, seuil_commande |-> {}]
        ELSE arts[x]]

\* INSERT INTO articles ... VALUES (:a, :d, 0, 0)
\* ON CONFLICT (article) DO UPDATE SET designation = EXCLUDED.designation
upsert_article(arts, a, d) ==
    IF a \in DOMAIN arts
    THEN [arts EXCEPT ![a].designation = d]
    ELSE [x \in DOMAIN arts \cup {a} |->
            IF x = a
            THEN [designation |-> d, stock |-> 0, garantie |-> 0, seuil_commande |-> {}]
            ELSE arts[x]]

\* UPDATE articles SET stock=:s, garantie=:g WHERE article=:a
update_counters(arts, a, s, g) ==
    IF a \in DOMAIN arts
    THEN [arts EXCEPT ![a].stock = s, ![a].garantie = g]
    ELSE arts

\* INSERT INTO mouvements(...) VALUES (...): the row apply_movement appends.
mouvement_row(id, f) ==
    [id |-> id, date |-> f.d, article |-> f.article, designation |-> f.designation,
     type_mvt |-> f.type_mvt, emplacement |-> f.emplacement, quantite |-> f.qty,
     adresse |-> or_none(f.adresse), commentaire |-> or_none(f.commentaire)]

\* DELETE FROM mouvements WHERE article=:a
delete_mouvements(mvts, a) == {m \in mvts : m.article # a}

\* DELETE FROM articles WHERE article=:a
delete_article_row(arts, a) == [x \in DOMAIN arts \ {a} |-> arts[x]]

\* ------------------------------------------------ apply_movement (pure)
\* new_counters where GARANTIE/ENTREE forgets to take the units out of stock.
new_counters_sans_transfert(stock, garantie, emplacement, type_mvt, qty) ==
    IF emplacement = "STOCK"
    THEN IF type_mvt = "ENTREE"
         THEN [stock |-> stock + qty, garantie |-> garantie]
         ELSE [stock |-> stock - qty, garantie |-> garantie]
    ELSE IF type_mvt = "ENTREE"
         THEN [stock |-> stock, garantie |-> garantie + qty]
         ELSE [stock |-> stock, garantie |-> garantie - qty]

\* The counters apply_movement computes from the ones it read.
new_counters(stock, garantie, emplacement, type_mvt, qty) ==
    IF emplacement = "STOCK"
    THEN IF type_mvt = "ENTREE"
         THEN [stock |-> stock + qty, garantie |-> garantie]
         ELSE [stock |-> stock - qty, garantie |-> garantie]
    ELSE IF type_mvt = "ENTREE"
         THEN [stock |-> stock - qty, garantie |-> garantie + qty]
         ELSE [stock |-> stock, garantie |-> garantie - qty]

\* validate without its "Garantie insuffisante" check.
validate_sans_garantie(stock, garantie, emplacement, type_mvt, qty) ==
    LET n == new_counters(stock, garantie, emplacement, type_mvt, qty) IN
    IF qty <= 0 THEN "QuantiteInvalide"
    ELSE IF n.stock < 0 THEN "StockInsuffisant"
    ELSE "ok"

\* validate with its "Stock insuffisant" check off by one (new_stock < -1).
validate_stock_decale(stock, garantie, emplacement, type_mvt, qty) ==
    LET n == new_counters(stock, garantie, emplacement, type_mvt, qty) IN
    IF qty <= 0 THEN "QuantiteInvalide"
    ELSE IF n.stock < 0 - 1 THEN "StockInsuffisant"
    ELSE IF n.garantie < 0 THEN "GarantieInsuffisante"
    ELSE "ok"

\* The checks of apply_movement after its read, in the order of the code.
validate(stock, garantie, emplacement, type_mvt, qty) ==
    LET n == new_counters(stock, garantie, emplacement, type_mvt, qty) IN
    IF qty <= 0 THEN "QuantiteInvalide"
    ELSE IF n.stock < 0 THEN "StockInsuffisant"
    ELSE IF n.garantie < 0 THEN "GarantieInsuffisante"
    ELSE "ok"

\* The arguments and locals of one apply_movement call.
movement_frame(op, d, article, designation, type_mvt, emplacement, qty, adresse, commentaire) ==
    [op |-> op, d |-> d, article |-> article, designation |-> designation,
     type_mvt |-> type_mvt, emplacement |-> emplacement, qty |-> qty,
     adresse |-> adresse, commentaire |-> commentaire,
     stock |-> 0, garantie |-> 0, new_stock |-> 0, new_garantie |-> 0, eff |-> {}]

\* --------------------------------------------- tab1: "Enregistrer" handler
\* The script run of a click: designation lookup and the two form checks.
SubmitClick(s) ==
    \E art \in Articles \cup {""}, typed \in TypedDesignations,
       emplacement \in Emplacements, type_mvt \in TypesMvt, qty \in Quantites,
       choix \in AdresseNames \cup {NULL}, d \in Dates, commentaire \in Commentaires :
        LET designation_auto == IF art # "" THEN get_designation(art) ELSE ""
            designation == IF designation_auto # "" THEN designation_auto ELSE typed
            adresse == IF emplacement = "STOCK" /\ type_mvt = "SORTIE" THEN choix ELSE NULL
        IN  /\ begin(s)
            /\ IF art = "" \/ designation = ""
               THEN finish(s, "submit", "ValueError", {}, {})
               ELSE goto(s, "sub_upsert",
                         movement_frame("submit", d, art, designation, type_mvt,
                                        emplacement, qty, adresse, or_none(commentaire)))
            /\ UNCHANGED db

\* add_or_update_article(art, designation)
AddOrUpdateArticle(s) ==
    /\ pc[s] = "sub_upsert"
    /\ articles' = upsert_article(articles, frame[s].article, frame[s].designation)
    /\ goto(s, IF frame[s].adresse = NULL THEN "am_read" ELSE "sub_adresse",
            [frame[s] EXCEPT !.eff = IF articles' # articles THEN @ \cup {"article"} ELSE @])
    /\ UNCHANGED <<mouvements, mouv_id, adresses, settings, nops>>

\* add_adresse_if_needed(adresse): INSERT ... ON CONFLICT (nom) DO NOTHING
AddAdresseIfNeeded(s) ==
    /\ pc[s] = "sub_adresse"
    /\ adresses' = adresses \cup {frame[s].adresse}
    /\ goto(s, "am_read",
            [frame[s] EXCEPT !.eff = IF adresses' # adresses THEN @ \cup {"adresse"} ELSE @])
    /\ UNCHANGED <<articles, mouvements, mouv_id, settings, nops>>

\* ---------------------------------------------------------- apply_movement
\* read_df of the counters, then the checks and the arithmetic on the copy.
ApplyMovementRead(s) ==
    /\ pc[s] = "am_read"
    /\ LET f == frame[s] IN
       IF f.article \notin registered
       THEN finish(s, f.op, "ArticleInconnu", f.eff, {})
       ELSE LET stock == articles[f.article].stock
                garantie == articles[f.article].garantie
                v == validate(stock, garantie, f.emplacement, f.type_mvt, f.qty)
                n == new_counters(stock, garantie, f.emplacement, f.type_mvt, f.qty)
            IN  IF v # "ok"
                THEN finish(s, f.op, v, f.eff, {})
                ELSE goto(s, "am_update",
                          [f EXCEPT !.stock = stock, !.garantie = garantie,
                                    !.new_stock = n.stock, !.new_garantie = n.garantie])
    /\ UNCHANGED <<db, nops>>

\* exec_sql("UPDATE articles SET stock=:s, garantie=:g WHERE article=:a")
ApplyMovementUpdate(s) ==
    /\ pc[s] = "am_update"
    /\ articles' = update_counters(articles, frame[s].article,
                                   frame[s].new_stock, frame[s].new_garantie)
    /\ goto(s, "am_insert",
            [frame[s] EXCEPT !.eff =
                IF frame[s].article \in registered THEN @ \cup {"counters"} ELSE @])
    /\ UNCHANGED <<mouvements, mouv_id, adresses, settings, nops>>

\* exec_sql("INSERT INTO mouvements ...")
ApplyMovementInsert(s) ==
    /\ pc[s] = "am_insert"
    /\ mouv_id' = mouv_id + 1
    /\ mouvements' = mouvements \cup {mouvement_row(mouv_id + 1, frame[s])}
    /\ finish(s, frame[s].op, "ok", frame[s].eff \cup {"mouvement"}, {})
    /\ UNCHANGED <<articles, adresses, settings, nops>>

\* ------------------------------- tab1: "Sauvegarder les modifications"
\* The arguments and locals of one update_article_number_and_designation call.
rename_frame(old_article, new_article, new_designation) ==
    [op |-> "rename", old_article |-> old_article, new_article |-> new_article,
     new_designation |-> new_designation,
     stock |-> 0, garantie |-> 0, seuil |-> {}, eff |-> {}]

\* The script run of a click: the article is picked among get_articles(),
\* the two text fields start from its number and designation.
RenameClick(s) ==
    \E old_article \in registered, new_article \in Articles :
    \E new_designation \in {get_designation(old_article)} \cup EditedDesignations :
        /\ begin(s)
        /\ goto(s, IF old_article # new_article THEN "rn_exists" ELSE "rd_article",
                rename_frame(old_article, new_article, new_designation))
        /\ UNCHANGED db

\* read_df("SELECT 1 FROM articles WHERE article=:a"): the target must be free.
RenameCheckNew(s) ==
    /\ pc[s] = "rn_exists"
    /\ IF frame[s].new_article \in registered
       THEN finish(s, "rename", "NumeroExiste", frame[s].eff, {})
       ELSE goto(s, "rn_old", frame[s])
    /\ UNCHANGED <<db, nops>>

\* read_df of the old article's row.
RenameReadOld(s) ==
    /\ pc[s] = "rn_old"
    /\ LET f == frame[s] IN
       IF f.old_article \notin registered
       THEN finish(s, "rename", "ArticleIntrouvable", f.eff, {})
       ELSE goto(s, "rn_insert",
                 [f EXCEPT !.stock = articles[f.old_article].stock,
                           !.garantie = articles[f.old_article].garantie,
                           !.seuil = articles[f.old_article].seuil_commande])
    /\ UNCHANGED <<db, nops>>

\* INSERT INTO articles(article, designation, stock, garantie, seuil_commande)
insert_article(arts, a, d, s, g, sc) ==
    [x \in DOMAIN arts \cup {a} |->
        IF x = a
        THEN [designation |-> d, stock |-> s, garantie |-> g, seuil_commande |-> sc]
        ELSE arts[x]]

\* exec_sql(INSERT new): a primary-key conflict raises IntegrityError.
RenameInsertNew(s) ==
    /\ pc[s] = "rn_insert"
    /\ LET f == frame[s] IN
       IF f.new_article \in registered
       THEN /\ finish(s, "rename", "IntegrityError", f.eff, {})
            /\ UNCHANGED articles
       ELSE /\ articles' = insert_article(articles, f.new_article, f.new_designation,
                                          f.stock, f.garantie, f.seuil)
            /\ goto(s, "rn_delete", [f EXCEPT !.eff = @ \cup {"new_article"}])
    /\ UNCHANGED <<mouvements, mouv_id, adresses, settings, nops>>

\* exec_sql("DELETE FROM articles WHERE article=:a", old)
RenameDeleteOld(s) ==
    /\ pc[s] = "rn_delete"
    /\ articles' = delete_article_row(articles, frame[s].old_article)
    /\ goto(s, "rn_mouv",
            [frame[s] EXCEPT !.eff = IF articles' # articles THEN @ \cup {"old_article"} ELSE @])
    /\ UNCHANGED <<mouvements, mouv_id, adresses, settings, nops>>

\* rename_mouvements with :newd bound to the wrong TEXT column (commentaire).
rename_mouvements_colonne(mvts, olda, newa, newd) ==
    {IF m.article = olda THEN [m EXCEPT !.article = newa, !.commentaire = newd] ELSE m :
        m \in mvts}

\* UPDATE mouvements SET article=:newa, designation=:newd WHERE article=:olda
rename_mouvements(mvts, olda, newa, newd) ==
    {IF m.article = olda THEN [m EXCEPT !.article = newa, !.designation = newd] ELSE m :
        m \in mvts}

RenameUpdateMouvements(s) ==
    /\ pc[s] = "rn_mouv"
    /\ mouvements' = rename_mouvements(mouvements, frame[s].old_article,
                                       frame[s].new_article, frame[s].new_designation)
    /\ finish(s, "rename", "ok",
              IF mouvements' # mouvements THEN frame[s].eff \cup {"mouvements"} ELSE frame[s].eff,
              {})
    /\ UNCHANGED <<articles, mouv_id, adresses, settings, nops>>

\* UPDATE articles SET designation=:d WHERE article=:a
update_designation(arts, a, d) ==
    IF a \in DOMAIN arts THEN [arts EXCEPT ![a].designation = d] ELSE arts

\* Same number: exec_sql("UPDATE articles SET designation ...")
RedesignateArticle(s) ==
    /\ pc[s] = "rd_article"
    /\ articles' = update_designation(articles, frame[s].old_article, frame[s].new_designation)
    /\ goto(s, "rd_mouv",
            [frame[s] EXCEPT !.eff = IF articles' # articles THEN @ \cup {"designation"} ELSE @])
    /\ UNCHANGED <<mouvements, mouv_id, adresses, settings, nops>>

\* UPDATE mouvements SET designation=:d WHERE article=:a
redesignate_mouvements(mvts, a, d) ==
    {IF m.article = a THEN [m EXCEPT !.designation = d] ELSE m : m \in mvts}

RedesignateMouvements(s) ==
    /\ pc[s] = "rd_mouv"
    /\ mouvements' = redesignate_mouvements(mouvements, frame[s].old_article,
                                            frame[s].new_designation)
    /\ finish(s, "rename", "ok",
              IF mouvements' # mouvements THEN frame[s].eff \cup {"mouvements"} ELSE frame[s].eff,
              {})
    /\ UNCHANGED <<articles, mouv_id, adresses, settings, nops>>

\* ------------------------------------ tab2: "Supprimer définitivement"
\* The script run of a click: the article is picked among get_articles().
DeleteClick(s) ==
    \E article \in registered :
        /\ begin(s)
        /\ goto(s, "del_mouv", [op |-> "delete", article |-> article, eff |-> {}])
        /\ UNCHANGED db

\* delete_article, first statement
DeleteMouvements(s) ==
    /\ pc[s] = "del_mouv"
    /\ mouvements' = delete_mouvements(mouvements, frame[s].article)
    /\ goto(s, "del_article",
            [frame[s] EXCEPT !.eff = IF mouvements' # mouvements THEN @ \cup {"mouvements"} ELSE @])
    /\ UNCHANGED <<articles, mouv_id, adresses, settings, nops>>

\* delete_article, second statement
DeleteArticleRow(s) ==
    /\ pc[s] = "del_article"
    /\ articles' = delete_article_row(articles, frame[s].article)
    /\ finish(s, "delete", "ok",
              IF articles' # articles THEN frame[s].eff \cup {"article"} ELSE frame[s].eff, {})
    /\ UNCHANGED <<mouvements, mouv_id, adresses, settings, nops>>

\* ------------------- tab2: "Seuil pièce" editor and "Pièces à commander"
\* UPDATE articles SET seuil_commande=:s WHERE article=:a
update_article_seuil(arts, a, seuil) ==
    IF a \in DOMAIN arts THEN [arts EXCEPT ![a].seuil_commande = seuil] ELSE arts

\* get_setting("seuil_global", default), as an integer
get_setting == int(settings)

\* seuil_effectif written as (seuil_commande or new_global): 0 counts as unset.
seuil_effectif_ou(row, new_global) ==
    IF row.seuil_commande = {} \/ row.seuil_commande = {0} THEN new_global
    ELSE CHOOSE n \in row.seuil_commande : TRUE

\* df["seuil_commande"].fillna(new_global)
seuil_effectif(row, new_global) ==
    IF row.seuil_commande = {} THEN new_global
    ELSE CHOOSE n \in row.seuil_commande : TRUE

\* df[df["stock"] <= df["seuil_effectif"]], with the columns displayed
a_commander(arts, new_global) ==
    {[article |-> a, designation |-> arts[a].designation, stock |-> arts[a].stock,
      seuil_effectif |-> seuil_effectif(arts[a], new_global)] :
        a \in {x \in DOMAIN arts : arts[x].stock <= seuil_effectif(arts[x], new_global)}}

\* The locals of a script run through tab2.
tab2_frame(articles_empty, article, val) ==
    [op |-> "tab2", articles_empty |-> articles_empty, article |-> article, val |-> val,
     new_global |-> 0, eff |-> {}]

\* A script run reaches tab2: articles_df = get_articles(), then the table
\* editor.  Either no cell was edited, or one "Seuil pièce" cell differs from
\* the value just read (empty cell = no per-article threshold).
Tab2Run(s) ==
    /\ begin(s)
    /\ \/ goto(s, "get_setting", tab2_frame(registered = {}, "", {}))
       \/ \E article \in registered :
          \E new_val \in {{}} \cup {{n} : n \in Seuils} :
            /\ articles[article].seuil_commande # new_val
            /\ goto(s, "seuil_update", tab2_frame(FALSE, article, new_val))
    /\ UNCHANGED db

\* update_article_seuil(art, val); st.rerun() restarts the script.
SeuilUpdate(s) ==
    /\ pc[s] = "seuil_update"
    /\ articles' = update_article_seuil(articles, frame[s].article, frame[s].val)
    /\ goto(s, "get_articles",
            [frame[s] EXCEPT !.eff = IF articles' # articles THEN @ \cup {"seuil"} ELSE @])
    /\ UNCHANGED <<mouvements, mouv_id, adresses, settings, nops>>

\* The rerun reaches tab2 again: articles_df = get_articles(), nothing edited.
Tab2GetArticles(s) ==
    /\ pc[s] = "get_articles"
    /\ goto(s, "get_setting", [frame[s] EXCEPT !.articles_empty = (registered = {})])
    /\ UNCHANGED <<db, nops>>

\* get_setting, then the number_input: the user keeps the value or types one.
Tab2GetSetting(s) ==
    /\ pc[s] = "get_setting"
    /\ \E new_global \in {get_setting} \cup Seuils :
        IF new_global # get_setting
        THEN goto(s, "set_setting", [frame[s] EXCEPT !.new_global = new_global])
        ELSE IF frame[s].articles_empty
        THEN finish(s, "tab2", "ok", frame[s].eff, {})
        ELSE goto(s, "a_commander", [frame[s] EXCEPT !.new_global = new_global])
    /\ UNCHANGED <<db, nops>>

\* set_setting("seuil_global", str(new_global)); st.rerun() restarts the script.
Tab2SetSetting(s) ==
    /\ pc[s] = "set_setting"
    /\ settings' = str(frame[s].new_global)
    /\ goto(s, "get_articles", [frame[s] EXCEPT !.eff = @ \cup {"setting"}])
    /\ UNCHANGED <<articles, mouvements, mouv_id, adresses, nops>>

\* df = get_articles(); the filter; st.dataframe(a_commander)
Tab2Reorder(s) ==
    /\ pc[s] = "a_commander"
    /\ finish(s, "tab2", "ok", frame[s].eff, a_commander(articles, frame[s].new_global))
    /\ UNCHANGED <<db, nops>>

\* ---------------------------------------- apply_movement as a function
\* A direct call of apply_movement: its parameters are plain str and int,
\* nothing confines them to the values the form offers.
CalledEmplacements == Emplacements \cup {"DEPOT"}
CalledTypesMvt == TypesMvt \cup {"RETOUR"}

ApplyMovementCall(s) ==
    \E article \in Articles, emplacement \in CalledEmplacements,
       type_mvt \in CalledTypesMvt, qty \in {0} \cup Quantites, d \in Dates :
        /\ begin(s)
        /\ goto(s, "am_read",
                movement_frame("call", d, article, get_designation(article), type_mvt,
                               emplacement, qty, NULL, NULL))
        /\ UNCHANGED db

\* ------------------------------------------------------- storage failure
\* The statement a session is about to execute raises (database unreachable):
\* its transaction persists nothing and the exception ends the handler.
\* Inside the try block of the "Seuil pièce" editor the exception is swallowed
\* (except Exception: pass) and the script goes on to "Pièces à commander".
StorageFailure(s) ==
    /\ pc[s] # "idle"
    /\ IF pc[s] = "seuil_update"
       THEN goto(s, "get_setting", frame[s])
       ELSE finish(s, frame[s].op, "StorageFailure", frame[s].eff, {})
    /\ UNCHANGED <<db, nops>>

Next ==
    \E s \in Sessions :
        \/ SubmitClick(s)
        \/ AddOrUpdateArticle(s)
        \/ AddAdresseIfNeeded(s)
        \/ ApplyMovementRead(s)
        \/ ApplyMovementUpdate(s)
        \/ ApplyMovementInsert(s)
        \/ RenameClick(s)
        \/ RenameCheckNew(s)
        \/ RenameReadOld(s)
        \/ RenameInsertNew(s)
        \/ RenameDeleteOld(s)
        \/ RenameUpdateMouvements(s)
        \/ RedesignateArticle(s)
        \/ RedesignateMouvements(s)
        \/ DeleteClick(s)
        \/ DeleteMouvements(s)
        \/ DeleteArticleRow(s)
        \/ Tab2Run(s)
        \/ SeuilUpdate(s)
        \/ Tab2GetArticles(s)
        \/ Tab2GetSetting(s)
        \/ Tab2SetSetting(s)
        \/ Tab2Reorder(s)
        \/ StorageFailure(s)

Spec == Init /\ [][Next]_vars

\* The application together with direct callers of apply_movement.
NextCall == Next \/ \E s \in Sessions : ApplyMovementCall(s)

SpecCall == Init /\ [][NextCall]_vars

\* ====================================================================
\* Properties
\* ====================================================================
\* The session s executes a statement in this step.
steps(s) == pc'[s] # pc[s] \/ frame'[s] # frame[s]

\* The request of a running apply_movement names a known location and
\* direction and a positive quantity.
valid_request(f) ==
    /\ f.emplacement \in Emplacements
    /\ f.type_mvt \in TypesMvt
    /\ f.qty > 0

\* --------------------------------------------------------------------
\* C1: in every reachable state the persisted stock and garantie of every
\* article are >= 0, whatever movements were accepted or rejected and
\* however the sessions interleave.
C1_CountersNonNegative ==
    \A a \in registered : articles[a].stock >= 0 /\ articles[a].garantie >= 0

\* An accepted STOCK/SORTIE has brought an article's stock back to 0.
C1_Witness ==
    \E a \in registered :
        /\ articles[a].stock = 0
        /\ \E m \in mouvements :
            m.article = a /\ m.emplacement = "STOCK" /\ m.type_mvt = "SORTIE"

\* --------------------------------------------------------------------
\* C2: apply_movement calls on one article serialize: no two calls are
\* between their read and their counter update at the same time, and a call
\* that is about to update the counters still sees the counters it read and
\* validated (its snapshot is not stale).
C2_Serialized ==
    /\ \A s, t \in Sessions :
        (s # t /\ pc[s] = "am_update" /\ pc[t] = "am_update")
            => frame[s].article # frame[t].article
    /\ \A s \in Sessions :
        (pc[s] = "am_update" /\ frame[s].article \in registered)
            => /\ articles[frame[s].article].stock = frame[s].stock
               /\ articles[frame[s].article].garantie = frame[s].garantie

\* --------------------------------------------------------------------
\* C3: the counter update and the movement insert of an apply_movement call
\* are all-or-nothing: a call that has ended, also by a storage failure, has
\* persisted both its counters and its movement row, or neither.
C3_UpdateAndInsertAtomic ==
    last.op \in {"submit", "call"}
        => ("counters" \in last.eff <=> "mouvement" \in last.eff)

\* The counters an accepted request must produce from the counters read.
C4_Expected(f) ==
    LET q == f.qty IN
    IF f.emplacement = "STOCK" /\ f.type_mvt = "ENTREE" THEN <<f.stock + q, f.garantie>>
    ELSE IF f.emplacement = "STOCK" /\ f.type_mvt = "SORTIE" THEN <<f.stock - q, f.garantie>>
    ELSE IF f.emplacement = "GARANTIE" /\ f.type_mvt = "ENTREE"
         THEN <<f.stock - q, f.garantie + q>>
    ELSE <<f.stock, f.garantie - q>>

C5_InsufficientRejected ==
    [][\A s \in Sessions :
        (/\ pc[s] = "am_read"
         /\ steps(s)
         /\ frame[s].article \in registered
         /\ frame[s].qty > 0
         /\ LET f == frame[s]
                n == C4_Expected([f EXCEPT !.stock = articles[f.article].stock,
                                           !.garantie = articles[f.article].garantie])
            IN  n[1] < 0 \/ n[2] < 0)
        => /\ pc'[s] = "idle"
           /\ last'.result \in {"StockInsuffisant", "GarantieInsuffisante", "StorageFailure"}
           /\ last'.eff \cap {"counters", "mouvement"} = {}
           /\ UNCHANGED <<articles, mouvements, mouv_id>>
      ]_vars

\* A movement has just been refused for lack of stock.
C5_Witness ==
    /\ last.result = "StockInsuffisant"
    /\ last.eff \cap {"counters", "mouvement"} = {}

\* The errors the "Enregistrer" handler raises itself.
C6_Rejections ==
    {"ValueError", "ArticleInconnu", "QuantiteInvalide",
     "StockInsuffisant", "GarantieInsuffisante"}

\* --------------------------------------------------------------------
\* C6: a movement submission (add_or_update_article, add_adresse_if_needed,
\* apply_movement) that ends in an error has persisted nothing: no article,
\* no address, no counters, no movement row.  Stated for the errors the
\* handler raises itself; a storage failure between two statements breaks
\* it as well.
C6_SubmissionAllOrNothing ==
    (last.op = "submit" /\ last.result \in C6_Rejections) => last.eff = {}

\* --------------------------------------------------------------------
\* C7: apply_movement rejects every invalid request (quantity <= 0, unknown
\* location, unknown direction): the call never passes its checks on to the
\* counter update, and articles and mouvements keep their contents.
C7_InvalidRejected ==
    [][\A s \in Sessions :
        (pc[s] = "am_read" /\ steps(s) /\ ~valid_request(frame[s]))
            => /\ pc'[s] = "idle"
               /\ UNCHANGED <<articles, mouvements>>
      ]_vars

\* --------------------------------------------------------------------
\* C8: when delete_article(X) completes, X is no registered article and no
\* movement row references X, whatever apply_movement calls on X ran before
\* or are in flight.
C8_DeleteLeavesNoRow ==
    [][\A s \in Sessions :
        (pc[s] = "del_article" /\ pc'[s] = "idle" /\ last'.result = "ok")
            => /\ frame[s].article \notin DOMAIN articles'
               /\ \A m \in mouvements' : m.article # frame[s].article
      ]_vars

\* The row m leaves the table in a step of delete_article on its article.
deleted_by_delete_article(m) ==
    /\ \A m2 \in mouvements' : m2.id # m.id
    /\ \E s \in Sessions :
        pc[s] = "del_mouv" /\ steps(s) /\ frame[s].article = m.article

\* --------------------------------------------------------------------
\* C9 as claimed: a movement row never changes in any field; it leaves the
\* table only through delete_article of the article it references.
C9_MovementImmutable ==
    [][\A m \in mouvements : m \in mouvements' \/ deleted_by_delete_article(m)]_vars

\* The row m is rewritten in a step of update_article_number_and_designation.
rewritten_by_rename(m) ==
    \E s \in Sessions :
        /\ pc[s] \in {"rn_mouv", "rd_mouv"}
        /\ steps(s)
        /\ frame[s].old_article = m.article
        /\ [m EXCEPT !.article = IF pc[s] = "rn_mouv" THEN frame[s].new_article ELSE @,
                     !.designation = frame[s].new_designation] \in mouvements'

\* C9 as amended: the date, direction, location, quantity, address and
\* comment of a movement row never change; its article identifier and
\* designation are rewritten only by update_article_number_and_designation
\* on the article it references, to the identifier and designation given
\* there; it leaves the table only through delete_article of its article.
C9_MovementImmutableButRename ==
    [][\A m \in mouvements :
        m \in mouvements' \/ rewritten_by_rename(m) \/ deleted_by_delete_article(m)]_vars

\* A rename has just rewritten the article identifier of a logged movement.
C9_Witness ==
    /\ last.op = "rename"
    /\ last.result = "ok"
    /\ "mouvements" \in last.eff
    /\ "old_article" \in last.eff
    /\ mouvements # {}

\* Article a is due under the global threshold given.
C10_Due(a, global) ==
    LET sc == articles[a].seuil_commande IN
    IF sc = {} THEN articles[a].stock <= global
    ELSE \E n \in sc : articles[a].stock <= n

\* --------------------------------------------------------------------
\* C10: "Pièces à commander" displays exactly the articles whose stock is <=
\* their effective threshold: seuil_commande when it is set, 0 included, and
\* the global threshold of the run otherwise; it shows that threshold as
\* "Seuil utilisé"; computing it changes no table.
C10_ReorderSet ==
    [][\A s \in Sessions :
        (pc[s] = "a_commander" /\ pc'[s] = "idle" /\ last'.result = "ok")
            => /\ {r.article : r \in last'.shown}
                    = {a \in registered : C10_Due(a, frame[s].new_global)}
               /\ \A r \in last'.shown :
                    /\ r.stock = articles[r.article].stock
                    /\ r.seuil_effectif \in
                         (IF articles[r.article].seuil_commande = {}
                          THEN {frame[s].new_global}
                          ELSE articles[r.article].seuil_commande)
               /\ UNCHANGED db
      ]_vars

\* The list was just computed with an article whose own threshold 0 keeps it
\* out although its stock is within the global threshold.
C10_Witness ==
    /\ last.op = "tab2"
    /\ last.result = "ok"
    /\ \E a \in registered :
        /\ articles[a].seuil_commande = {0}
        /\ articles[a].stock > 0
        /\ articles[a].stock <= get_setting
        /\ \A r \in last.shown : r.article # a

\* --------------------------------------------------------------------
\* C11: the add_or_update_article statement never resets counters: on an
\* unregistered identifier it creates the row with stock 0 and garantie 0;
\* on a registered one it keeps stock, garantie and seuil_commande and
\* sets the designation only; no other article and no movement row
\* changes; running the same statement again changes nothing more.
C11_UpsertKeepsCounters ==
    [][\A s \in Sessions :
        pc[s] = "sub_upsert" /\ pc'[s] \in {"am_read", "sub_adresse"} =>
            LET a == frame[s].article
                d == frame[s].designation
            IN  /\ registered' = registered \cup {a}
                /\ articles'[a].designation = d
                /\ IF a \in registered
                   THEN /\ articles'[a].stock = articles[a].stock
                        /\ articles'[a].garantie = articles[a].garantie
                        /\ articles'[a].seuil_commande = articles[a].seuil_commande
                   ELSE /\ articles'[a].stock = 0
                        /\ articles'[a].garantie = 0
                /\ \A x \in registered \ {a} : articles'[x] = articles[x]
                /\ mouvements' = mouvements
                /\ upsert_article(articles', a, d) = articles']_vars

\* The statement has run on an article that holds stock and has movements.
C11_Witness ==
    \E s \in Sessions :
        /\ pc[s] \in {"am_read", "sub_adresse"}
        /\ frame[s].op = "submit"
        /\ "article" \notin frame[s].eff
        /\ frame[s].article \in registered
        /\ articles[frame[s].article].stock > 0
        /\ \E m \in mouvements : m.article = frame[s].article

\* --------------------------------------------------------------------
\* The sum of the quantities of a set of movement rows.
RECURSIVE C12_Sum(_)
C12_Sum(rows) ==
    IF rows = {}
    THEN 0
    ELSE LET m == CHOOSE x \in rows : TRUE
         IN  m.quantite + C12_Sum(rows \ {m})

\* The rows of article a at one location and in one direction.
C12_Rows(a, emplacement, type_mvt) ==
    {m \in mouvements :
        m.article = a /\ m.emplacement = emplacement /\ m.type_mvt = type_mvt}

\* The balances the movement rows of article a add up to.
C12_Balance(a) ==
    [stock |-> C12_Sum(C12_Rows(a, "STOCK", "ENTREE"))
                - C12_Sum(C12_Rows(a, "STOCK", "SORTIE"))
                - C12_Sum(C12_Rows(a, "GARANTIE", "ENTREE")),
     garantie |-> C12_Sum(C12_Rows(a, "GARANTIE", "ENTREE"))
                - C12_Sum(C12_Rows(a, "GARANTIE", "SORTIE"))]

\* C12: ledger consistency: the stored stock and garantie of every
\* registered article equal the balances its movement rows add up to. The
\* claim is for every reachable state; it is stated here where it asks
\* least: no run is in flight and every run so far was a submission that
\* ended with its movement row (no failure, no rename, no delete).
C12_LedgerConsistent ==
    (/\ \A s \in Sessions : pc[s] = "idle"
     /\ Cardinality(mouvements) = nops)
        => \A a \in registered :
            /\ articles[a].stock = C12_Balance(a).stock
            /\ articles[a].garantie = C12_Balance(a).garantie

\* --------------------------------------------------------------------
\* C13: a rename of a registered article old to a free identifier new
\* conserves the ledger, also next to a concurrent apply_movement on old:
\* the row it deletes for old holds exactly the stock, garantie and
\* seuil_commande it has stored for new; when it completes, old is not
\* registered, new is, and no movement row references old; a rename refused
\* because new is registered changes nothing.  Stated for the steps of
\* renames that meet no storage failure.
C13_RenameConserves ==
    [][\A s \in Sessions :
        LET old == frame[s].old_article
            new == frame[s].new_article
        IN  /\ (pc[s] = "rn_delete" /\ pc'[s] = "rn_mouv") =>
                    /\ old \in registered
                    /\ new \in registered
                    /\ articles[new].stock = articles[old].stock
                    /\ articles[new].garantie = articles[old].garantie
                    /\ articles[new].seuil_commande = articles[old].seuil_commande
            /\ (pc[s] = "rn_mouv" /\ pc'[s] = "idle" /\ last'.result = "ok") =>
                    /\ old \notin registered'
                    /\ new \in registered'
                    /\ \A m \in mouvements' : m.article # old
            /\ (pc[s] = "rn_exists" /\ pc'[s] = "idle"
                    /\ last'.result = "NumeroExiste") =>
                    UNCHANGED db
      ]_vars

====
